---- MODULE Spec2Model ----
(***************************************************************************)
(* Plan-metadata inference of snowpark-python:                             *)
(*   src/snowflake/snowpark/_internal/analyzer/metadata_utils.py           *)
(* PlanMetadata, infer_quoted_identifiers_from_expressions and             *)
(* infer_metadata are translated from that file.  The resolution cache of  *)
(* a SnowflakePlan (its _metadata slot and the attributes and              *)
(* quoted_identifiers reads with their describe fallback), quote_name and  *)
(* parse_column_name live in other files of the repository and are         *)
(* modelled from the specification and the integration tests.              *)
(***************************************************************************)
EXTENDS Integers, Sequences, FiniteSets, TLC

VARIABLES
    session,                  \* the session: its reduce_describe_query_enabled flag
    node,                     \* the logical plan node (a plan's source_plan) metadata is inferred for
    plan,                     \* the SnowflakePlan built over node
    last_call,                \* the last direct call of infer_metadata, with its argument
    seen_attributes,          \* the distinct results of plan.attributes reads so far
    seen_quoted_identifiers,  \* the distinct results of plan.quoted_identifiers reads so far
    built,                    \* what SnowflakePlan.__init__ gave infer_metadata and got back
    constructed,              \* the last direct construction of a PlanMetadata, with its arguments
    callers                   \* per concurrent caller: where it is in its read of the plan

vars == <<session, node, plan, last_call,
          seen_attributes, seen_quoted_identifiers, built, constructed, callers>>

\* the variables the operations on the plan never write
aux == <<built, constructed, callers>>

(***************************************************************************)
(* Bounds of the model.                                                    *)
(***************************************************************************)
\* longest projection list and widest schema
MaxCols == 2
\* describe round trips after which the model stops issuing more
MaxDescribes == 2

(***************************************************************************)
(* Optional[T]: None is the empty tuple, a present value v is <<v>>.       *)
(***************************************************************************)
None == <<>>
Some(v) == <<v>>

SeqsUpTo(S, n) == UNION {[1..k -> S] : k \in 1..n}

(***************************************************************************)
(* Identifiers are strings, modelled as tuples of characters.              *)
(***************************************************************************)
DQ == "\""

upper(c) ==
    CASE c = "a" -> "A"
      [] c = "b" -> "B"
      [] c = "c" -> "C"
      [] OTHER -> c

\* utils.quote_name: an already quoted identifier is kept verbatim, any
\* other one is case-folded to upper case and wrapped in double quotes.
quote_name(name) ==
    IF Len(name) >= 2 /\ name[1] = DQ /\ name[Len(name)] = DQ
    THEN name
    ELSE <<DQ>> \o [i \in 1..Len(name) |-> upper(name[i])] \o <<DQ>>

(***************************************************************************)
(* Expressions of a projection list.  cls is the expression's class, child *)
(* the class of the expression it wraps, name the name parse_column_name   *)
(* finds for it (for an UnresolvedAlias: the analyzer's rendering of it).  *)
(***************************************************************************)
UnresolvedAttribute(name) ==
    [cls |-> "UnresolvedAttribute", child |-> "NoneType", name |-> Some(name)]

Alias(child, name) ==
    [cls |-> "Alias", child |-> child, name |-> Some(name)]

UnresolvedAlias(child, rendering) ==
    [cls |-> "UnresolvedAlias", child |-> child, name |-> Some(rendering)]

Literal ==
    [cls |-> "Literal", child |-> "NoneType", name |-> None]

\* select("*") arrives as UnresolvedAlias(Star()), which the analyzer renders as *
SelectStar == UnresolvedAlias("Star", <<"*">>)

Expressions ==
    {UnresolvedAttribute(<<"a">>), Alias("Literal", <<DQ, "c", DQ>>), SelectStar, Literal}

ProjectLists == SeqsUpTo(Expressions, MaxCols)

\* select_statement.parse_column_name: the name of a column reference or
\* of an alias, the analyzer's rendering of an UnresolvedAlias, None for
\* anything else (a literal has no deterministic name).
parse_column_name(e) ==
    IF e.cls \in {"Attribute", "UnresolvedAttribute", "Alias", "UnresolvedAlias"}
    THEN e.name
    ELSE None

(***************************************************************************)
(* Attributes and schemas.                                                 *)
(***************************************************************************)
Attribute(name, datatype, nullable) ==
    [name |-> name, datatype |-> datatype, nullable |-> nullable]

Attributes ==
    {Attribute(<<DQ, "A", DQ>>, "LongType", TRUE),
     Attribute(<<DQ, "c", DQ>>, "StringType", TRUE)}

Schemas == SeqsUpTo(Attributes, MaxCols)

names_of(attributes) == [i \in 1..Len(attributes) |-> attributes[i].name]

(***************************************************************************)
(* PlanMetadata                                                            *)
(***************************************************************************)
AssertionError == [error |-> "AssertionError"]

\* PlanMetadata.__post_init__: the asserted condition
post_init_without_assert(attributes, quoted_identifiers) == TRUE

post_init(attributes, quoted_identifiers) ==
    ~(attributes # None /\ quoted_identifiers # None)

\* the frozen dataclass: construction returns the record or raises
PlanMetadata(attributes, quoted_identifiers) ==
    IF post_init(attributes, quoted_identifiers)
    THEN [attributes |-> attributes, quoted_identifiers |-> quoted_identifiers]
    ELSE AssertionError

Unknown == PlanMetadata(None, None)
NamesKnown(quoted_identifiers) == PlanMetadata(None, Some(quoted_identifiers))
AttributesKnown(attributes) == PlanMetadata(Some(attributes), None)

(***************************************************************************)
(* infer_quoted_identifiers_from_expressions                               *)
(***************************************************************************)
\* line 49: isinstance(e, UnresolvedAlias) and isinstance(e.child, Star)
is_select_star_never(e) == FALSE

is_select_star(e) == e.cls = "UnresolvedAlias" /\ e.child = "Star"

\* line 55: result.append(quote_name(column_name))
append_deduplicated(result, column_name) ==
    IF \E i \in 1..Len(result) : result[i] = quote_name(column_name)
    THEN result
    ELSE Append(result, quote_name(column_name))

append_unquoted(result, column_name) == Append(result, column_name)

append_quoted(result, column_name) == Append(result, quote_name(column_name))

RECURSIVE infer_loop_skipping_unnamed(_, _, _)
infer_loop_skipping_unnamed(expressions, i, result) ==
    IF i > Len(expressions)
    THEN Some(result)
    ELSE LET e == expressions[i]
             column_name == parse_column_name(e)
         IN  IF is_select_star(e)
             THEN None
             ELSE IF column_name # None
                  THEN infer_loop_skipping_unnamed(
                           expressions, i + 1, append_quoted(result, column_name[1]))
                  ELSE infer_loop_skipping_unnamed(expressions, i + 1, result)

\* lines 45-58: the loop over the expressions, from the i-th on, with the
\* names collected so far; None is the early return
RECURSIVE infer_loop(_, _, _)
infer_loop(expressions, i, result) ==
    IF i > Len(expressions)
    THEN Some(result)
    ELSE LET e == expressions[i]
             column_name == parse_column_name(e)
         IN  IF is_select_star(e)
             THEN None
             ELSE IF column_name # None
                  THEN infer_loop(expressions, i + 1, append_quoted(result, column_name[1]))
                  ELSE None

infer_quoted_identifiers_from_expressions(expressions) ==
    infer_loop(expressions, 1, <<>>)

(***************************************************************************)
(* A SnowflakePlan and its resolution cache.  schema is what the describe  *)
(* round trip answers for the plan, describes counts the round trips.      *)
(***************************************************************************)
SnowflakePlan(metadata, schema) ==
    [cls |-> "SnowflakePlan", _metadata |-> metadata, schema |-> schema, describes |-> 0]

\* a child that is a bare logical node: it has no _metadata slot
LogicalChild(schema) ==
    [cls |-> "Project", _metadata |-> Unknown, schema |-> schema, describes |-> 0]

\* SnowflakePlan.attributes: served from the cache when attributes are
\* known, else one describe round trip whose answer replaces the cache
attributes_property(p) ==
    IF p._metadata.attributes # None
    THEN [value |-> p._metadata.attributes[1], plan |-> p]
    ELSE [value |-> p.schema,
          plan |-> [p EXCEPT !._metadata = PlanMetadata(Some(p.schema), None),
                             !.describes = @ + 1]]

\* SnowflakePlan.quoted_identifiers: the cached names, else the names of
\* the attributes
quoted_identifiers_property(p) ==
    IF p._metadata.quoted_identifiers # None
    THEN [value |-> p._metadata.quoted_identifiers[1], plan |-> p]
    ELSE [value |-> names_of(attributes_property(p).value),
          plan |-> attributes_property(p).plan]

(***************************************************************************)
(* infer_metadata                                                          *)
(***************************************************************************)
RowPreserving == {"Filter", "Sort", "Limit", "Sample"}

\* lines 91-92, 122-132: p._metadata is read as a plain field; value is
\* what the read yields, plan is p as the read leaves it
metadata_access_by_property(p) ==
    [value |-> attributes_property(p).plan._metadata, plan |-> attributes_property(p).plan]

metadata_access(p) == [value |-> p._metadata, plan |-> p]

\* line 84
inference_enabled_whatever_the_flag(source_plan, analyzer) ==
    source_plan.cls # "NoneType"

inference_enabled(source_plan, analyzer) ==
    analyzer.session.reduce_describe_query_enabled /\ source_plan.cls # "NoneType"

\* lines 89-92: Filter, Sort, Limit, Sample
infer_row_preserving_attributes_only(source_plan) ==
    IF source_plan.child.cls = "SnowflakePlan"
    THEN [attributes |-> metadata_access(source_plan.child).value.attributes,
          quoted_identifiers |-> None]
    ELSE [attributes |-> None, quoted_identifiers |-> None]

infer_row_preserving(source_plan) ==
    IF source_plan.child.cls = "SnowflakePlan"
    THEN [attributes |-> metadata_access(source_plan.child).value.attributes,
          quoted_identifiers |-> metadata_access(source_plan.child).value.quoted_identifiers]
    ELSE [attributes |-> None, quoted_identifiers |-> None]

\* lines 93-98: Project
infer_project_nothing(source_plan) ==
    [attributes |-> None, quoted_identifiers |-> None]

infer_project(source_plan) ==
    [attributes |-> None,
     quoted_identifiers |-> infer_quoted_identifiers_from_expressions(source_plan.project_list)]

\* lines 102-111: SelectStatement, what is cached on the node itself
select_cached_column_states_first(source_plan) ==
    IF source_plan._column_states # None
    THEN LET projection == source_plan._column_states[1].projection
         IN  [attributes |-> None,
              quoted_identifiers |->
                  Some([i \in 1..Len(projection) |-> projection[i].name])]
    ELSE [attributes |-> source_plan._attributes, quoted_identifiers |-> None]

select_cached(source_plan) ==
    [attributes |-> source_plan._attributes,
     quoted_identifiers |->
        IF source_plan._column_states # None
        THEN LET projection == source_plan._column_states[1].projection
             IN  Some([i \in 1..Len(projection) |-> projection[i].name])
        ELSE None]

\* lines 114-118
is_pass_through_with_projection(source_plan) ==
    /\ source_plan.from_.cls = "Selectable"
    /\ source_plan.projection # None
    /\ source_plan.from_._snowflake_plan # None

is_pass_through(source_plan) ==
    /\ source_plan.from_.cls = "Selectable"
    /\ source_plan.projection = None
    /\ source_plan.from_._snowflake_plan # None

\* lines 120-133: fill from the metadata of source_plan.from_ what the
\* previous step left unset
select_from_source_names_only(source_plan, locals) ==
    LET m == metadata_access(source_plan.from_._snowflake_plan[1]).value
    IN  IF locals.quoted_identifiers = None /\ m.quoted_identifiers # None
        THEN [locals EXCEPT !.quoted_identifiers = m.quoted_identifiers]
        ELSE locals

select_from_source(source_plan, locals) ==
    LET m == metadata_access(source_plan.from_._snowflake_plan[1]).value
    IN  IF locals.attributes = None /\ m.attributes # None
        THEN [locals EXCEPT !.attributes = m.attributes]
        ELSE IF locals.quoted_identifiers = None /\ m.quoted_identifiers # None
             THEN [locals EXCEPT !.quoted_identifiers = m.quoted_identifiers]
             ELSE locals

\* lines 100-133: SelectStatement
infer_select_statement(source_plan) ==
    IF is_pass_through(source_plan)
    THEN select_from_source(source_plan, select_cached(source_plan))
    ELSE select_cached(source_plan)

\* lines 137-138
keep_quoted_identifiers(locals) == locals

clear_quoted_identifiers(locals) ==
    IF locals.attributes # None
    THEN [locals EXCEPT !.quoted_identifiers = None]
    ELSE locals

\* lines 82-138: the two locals when the function reaches its return
infer_locals(source_plan, analyzer) ==
    IF inference_enabled(source_plan, analyzer)
    THEN clear_quoted_identifiers(
            CASE source_plan.cls \in RowPreserving -> infer_row_preserving(source_plan)
              [] source_plan.cls = "Project" -> infer_project(source_plan)
              [] source_plan.cls = "SelectStatement" -> infer_select_statement(source_plan)
              [] OTHER -> [attributes |-> None, quoted_identifiers |-> None])
    ELSE [attributes |-> None, quoted_identifiers |-> None]

\* line 140
infer_metadata(source_plan, analyzer) ==
    PlanMetadata(infer_locals(source_plan, analyzer).attributes,
                 infer_locals(source_plan, analyzer).quoted_identifiers)

\* the argument node as a call of infer_metadata leaves it: the call only
\* reads the _metadata of the child or of the source
after_infer_metadata(source_plan, analyzer) ==
    IF ~inference_enabled(source_plan, analyzer)
    THEN source_plan
    ELSE IF source_plan.cls \in RowPreserving /\ source_plan.child.cls = "SnowflakePlan"
         THEN [source_plan EXCEPT !.child = metadata_access(@).plan]
         ELSE IF source_plan.cls = "SelectStatement" /\ is_pass_through(source_plan)
              THEN [source_plan EXCEPT
                       !.from_._snowflake_plan = Some(metadata_access(@[1]).plan)]
              ELSE source_plan

(***************************************************************************)
(* Plan nodes.  One record shape serves every class of node; a field a     *)
(* class does not have holds its empty value.                              *)
(***************************************************************************)
NoPlan == [cls |-> "NoneType", _metadata |-> Unknown, schema |-> <<>>, describes |-> 0]

NoFrom == [cls |-> "NoneType", _snowflake_plan |-> None]

Node(cls, child, project_list, attributes, column_states, from_, projection) ==
    [cls |-> cls, child |-> child, project_list |-> project_list,
     _attributes |-> attributes, _column_states |-> column_states,
     from_ |-> from_, projection |-> projection]

\* source_plan is None
NoneNode == Node("NoneType", NoPlan, <<>>, None, None, NoFrom, None)

\* SelectStatement._column_states: only the projection's names are read
ColumnStates(names) == [projection |-> [i \in 1..Len(names) |-> [name |-> names[i]]]]

\* the states the cache of a plan with that schema can be in
SnowflakePlans(schema) ==
    {SnowflakePlan(m, schema) :
        m \in {Unknown, NamesKnown(names_of(schema)), AttributesKnown(schema)}}

\* the column names the backend reports for a projection list it can name
\* without knowing its input: no wildcard, every expression named
BackendNamed(project_list) ==
    \A i \in 1..Len(project_list) :
        ~(project_list[i].cls = "UnresolvedAlias" /\ project_list[i].child = "Star")
        /\ parse_column_name(project_list[i]) # None

BackendNames(project_list) ==
    [i \in 1..Len(project_list) |-> quote_name(parse_column_name(project_list[i])[1])]

(***************************************************************************)
(* The nodes the model starts from, each with the schema the backend       *)
(* reports for it.  Filtering, sorting, limiting, sampling and a           *)
(* SelectStatement without projection keep the schema of their input.      *)
(***************************************************************************)
RowPreservingInputs ==
    {[node |-> Node(cls, child, <<>>, None, None, NoFrom, None), schema |-> schema] :
        <<cls, schema, child>> \in
            {<<c, s, ch>> \in RowPreserving \X Schemas \X
                    UNION {SnowflakePlans(s2) \cup {LogicalChild(s2)} : s2 \in Schemas} :
                ch.schema = s}}

ProjectInputs ==
    {[node |-> Node("Project", NoPlan, pl_s[1], None, None, NoFrom, None),
      schema |-> pl_s[2]] :
        pl_s \in {x \in ProjectLists \X Schemas :
                    BackendNamed(x[1]) => names_of(x[2]) = BackendNames(x[1])}}

Froms(schema, projection) ==
    {[cls |-> "LogicalPlan", _snowflake_plan |-> None],
     [cls |-> "Selectable", _snowflake_plan |-> None]}
    \cup {[cls |-> "Selectable", _snowflake_plan |-> Some(p)] :
            p \in UNION {SnowflakePlans(s) :
                            s \in IF projection = None THEN {schema} ELSE Schemas}}

SelectStatementInputs ==
    UNION {
        {[node |-> Node("SelectStatement", NoPlan, <<>>, attributes, column_states,
                        from_, projection),
          schema |-> schema] :
            <<attributes, column_states, from_>> \in
                {None, Some(schema)}
                \X {None, Some(ColumnStates(names_of(schema)))}
                \X Froms(schema, projection)} :
        <<schema, projection>> \in Schemas \X {None, Some("projection")}}

OtherInputs ==
    {[node |-> n, schema |-> schema] :
        <<n, schema>> \in
            {NoneNode, Node("Aggregate", NoPlan, <<>>, None, None, NoFrom, None)}
            \X Schemas}

Inputs == RowPreservingInputs \cup ProjectInputs \cup SelectStatementInputs \cup OtherInputs

(***************************************************************************)
(* The state machine.                                                      *)
(***************************************************************************)
Analyzer == [session |-> session]

\* the callers that read the plan concurrently
Callers == {"caller1", "caller2"}

\* SnowflakePlan.__init__ fills the plan's cache with infer_metadata(source_plan)
Init ==
    /\ session \in [reduce_describe_query_enabled : BOOLEAN]
    /\ \E input \in Inputs :
        /\ node = input.node
        /\ plan = SnowflakePlan(infer_metadata(input.node, Analyzer), input.schema)
        /\ built = [source_plan |-> input.node,
                    enabled |-> session.reduce_describe_query_enabled,
                    metadata |-> infer_metadata(input.node, Analyzer)]
    /\ last_call = None
    /\ constructed = None
    /\ callers = [c \in Callers |-> [pc |-> "idle", op |-> "none"]]
    /\ seen_attributes = {}
    /\ seen_quoted_identifiers = {}

\* a direct call infer_metadata(node, analyzer, ...)
CallInferMetadata ==
    /\ last_call' = Some([source_plan |-> node,
                          enabled |-> session.reduce_describe_query_enabled,
                          result |-> infer_metadata(node, Analyzer)])
    /\ node' = after_infer_metadata(node, Analyzer)
    /\ UNCHANGED <<session, plan, seen_attributes, seen_quoted_identifiers, aux>>

\* a describe of the plan also caches the attributes on a SelectStatement
cache_on_source_plan(source_plan, before, after) ==
    IF /\ after.describes > before.describes
       /\ session.reduce_describe_query_enabled
       /\ source_plan.cls = "SelectStatement"
    THEN [source_plan EXCEPT !._attributes = after._metadata.attributes]
    ELSE source_plan

\* df.schema: plan.attributes
ReadAttributes ==
    /\ plan._metadata # AssertionError
    /\ plan.describes < MaxDescribes
    /\ plan' = attributes_property(plan).plan
    /\ seen_attributes' = seen_attributes \cup {attributes_property(plan).value}
    /\ node' = cache_on_source_plan(node, plan, plan')
    /\ UNCHANGED <<session, last_call, seen_quoted_identifiers, aux>>

\* df.columns: plan.quoted_identifiers
ReadQuotedIdentifiers ==
    /\ plan._metadata # AssertionError
    /\ plan.describes < MaxDescribes
    /\ plan' = quoted_identifiers_property(plan).plan
    /\ seen_quoted_identifiers' =
            seen_quoted_identifiers \cup {quoted_identifiers_property(plan).value}
    /\ node' = cache_on_source_plan(node, plan, plan')
    /\ UNCHANGED <<session, last_call, seen_attributes, aux>>

\* the schema of the child plan is read through the child's own dataframe
ChildReadAttributes ==
    /\ node.cls \in RowPreserving
    /\ node.child.cls = "SnowflakePlan"
    /\ node.child.describes < MaxDescribes
    /\ node' = [node EXCEPT !.child = attributes_property(@).plan]
    /\ UNCHANGED <<session, plan, last_call, seen_attributes, seen_quoted_identifiers, aux>>

\* the schema of a SelectStatement's source is read through its own dataframe
SourceReadAttributes ==
    /\ node.cls = "SelectStatement"
    /\ node.from_._snowflake_plan # None
    /\ node.from_._snowflake_plan[1].describes < MaxDescribes
    /\ node' = [node EXCEPT
                   !.from_._snowflake_plan = Some(attributes_property(@[1]).plan)]
    /\ UNCHANGED <<session, plan, last_call, seen_attributes, seen_quoted_identifiers, aux>>

Next ==
    \/ CallInferMetadata
    \/ ReadAttributes
    \/ ReadQuotedIdentifiers
    \/ ChildReadAttributes
    \/ SourceReadAttributes

Spec == Init /\ [][Next]_vars

\* a direct construction PlanMetadata(attributes=..., quoted_identifiers=...),
\* each argument None or what the plan's schema gives
ConstructPlanMetadata ==
    /\ \E attributes \in {None, Some(plan.schema)},
          quoted_identifiers \in {None, Some(names_of(plan.schema))} :
            constructed' = Some([attributes |-> attributes,
                                 quoted_identifiers |-> quoted_identifiers,
                                 result |-> PlanMetadata(attributes, quoted_identifiers)])
    /\ UNCHANGED <<session, node, plan, last_call,
                   seen_attributes, seen_quoted_identifiers, built, callers>>

\* PlanMetadata and infer_metadata as functions: constructions and calls only
NextPlanMetadata ==
    \/ ConstructPlanMetadata
    \/ CallInferMetadata

SpecPlanMetadata == Init /\ [][NextPlanMetadata]_vars

(***************************************************************************)
(* Concurrent reads of the plan.  A read suspends only in the describe     *)
(* round trip: a caller checks the cache, and, when the cache cannot       *)
(* answer, issues the describe and later, on its answer, fills the cache.  *)
(***************************************************************************)
\* the cache can answer a read of op
cached(metadata, op) ==
    \/ metadata.attributes # None
    \/ op = "quoted_identifiers" /\ metadata.quoted_identifiers # None

\* what the cache answers
cached_value(metadata, op) ==
    IF op = "attributes"
    THEN metadata.attributes[1]
    ELSE IF metadata.quoted_identifiers # None
         THEN metadata.quoted_identifiers[1]
         ELSE names_of(metadata.attributes[1])

\* PlanMetadata is frozen: attributes reach the cache in a new
\* PlanMetadata that replaces the old one, never by assignment to a field
with_attributes_in_place(metadata, attributes) ==
    [metadata EXCEPT !.attributes = Some(attributes)]

with_attributes(metadata, attributes) == PlanMetadata(Some(attributes), None)

\* the caller's result joins the results seen for op
ReturnTo(op, value) ==
    IF op = "attributes"
    THEN /\ seen_attributes' = seen_attributes \cup {value}
         /\ UNCHANGED seen_quoted_identifiers
    ELSE /\ seen_quoted_identifiers' = seen_quoted_identifiers \cup {value}
         /\ UNCHANGED seen_attributes

\* a caller's read is answered by the cache
ServeFromCache ==
    \E c \in Callers, op \in {"attributes", "quoted_identifiers"} :
        /\ callers[c].pc = "idle"
        /\ plan._metadata # AssertionError
        /\ cached(plan._metadata, op)
        /\ ReturnTo(op, cached_value(plan._metadata, op))
        /\ UNCHANGED <<session, node, plan, last_call, built, constructed, callers>>

\* a caller's read finds the cache unable to answer and issues the describe
StartDescribe ==
    \E c \in Callers, op \in {"attributes", "quoted_identifiers"} :
        /\ callers[c].pc = "idle"
        /\ plan._metadata # AssertionError
        /\ ~cached(plan._metadata, op)
        /\ plan.describes < MaxDescribes
        /\ callers' = [callers EXCEPT ![c] = [pc |-> "describing", op |-> op]]
        /\ plan' = [plan EXCEPT !.describes = @ + 1]
        /\ UNCHANGED <<session, node, last_call, seen_attributes,
                       seen_quoted_identifiers, built, constructed>>

\* the describe answers: the first answer to land fills the cache, a later
\* one finds it filled and leaves it; the caller returns what the cache holds
FinishDescribe ==
    \E c \in Callers :
        /\ callers[c].pc = "describing"
        /\ plan' = IF plan._metadata.attributes = None
                   THEN [plan EXCEPT !._metadata = with_attributes(@, plan.schema)]
                   ELSE plan
        /\ node' = IF /\ plan._metadata.attributes = None
                      /\ session.reduce_describe_query_enabled
                      /\ node.cls = "SelectStatement"
                   THEN [node EXCEPT !._attributes = Some(plan.schema)]
                   ELSE node
        /\ ReturnTo(callers[c].op,
                    IF callers[c].op = "attributes"
                    THEN plan'._metadata.attributes[1]
                    ELSE names_of(plan'._metadata.attributes[1]))
        /\ callers' = [callers EXCEPT ![c] = [pc |-> "idle", op |-> "none"]]
        /\ UNCHANGED <<session, last_call, built, constructed>>

NextConcurrent ==
    \/ ServeFromCache
    \/ StartDescribe
    \/ FinishDescribe

SpecConcurrent == Init /\ [][NextConcurrent]_vars

(***************************************************************************)
(* The claims.  Call is the last direct call of infer_metadata: the node   *)
(* it was given as the call found it, the flag, and what it returned.      *)
(***************************************************************************)
Called == last_call # None

Call == last_call[1]

IsStar(e) == e.cls = "UnresolvedAlias" /\ e.child = "Star"

\* C1: whatever node infer_metadata is given and whatever the flag, it
\* returns a PlanMetadata in which attributes and quoted_identifiers are
\* not both present.
C1_AtMostOnePopulated ==
    Called =>
        /\ Call.result # AssertionError
        /\ Call.result.attributes = None \/ Call.result.quoted_identifiers = None

\* reached: a SelectStatement with both a cached attribute list and cached
\* column states, flag on, came back with the attributes alone
C1_Witness ==
    /\ Called
    /\ Call.enabled
    /\ Call.source_plan.cls = "SelectStatement"
    /\ Call.source_plan._attributes # None
    /\ Call.source_plan._column_states # None
    /\ Call.result # AssertionError
    /\ Call.result.attributes = Call.source_plan._attributes
    /\ Call.result.quoted_identifiers = None

\* C2: with reduce_describe_query_enabled false the result is Unknown for
\* every node, whatever the child, the source or the node's caches hold.
C2_DisabledIsUnknown ==
    (Called /\ ~Call.enabled) =>
        Call.result = [attributes |-> None, quoted_identifiers |-> None]

\* reached: flag off, a Filter over a child whose attributes are known
C2_Witness ==
    /\ Called
    /\ ~Call.enabled
    /\ Call.source_plan.cls = "Filter"
    /\ Call.source_plan.child.cls = "SnowflakePlan"
    /\ Call.source_plan.child._metadata.attributes # None
    /\ Call.result = [attributes |-> None, quoted_identifiers |-> None]

\* C3: with the flag on, a Filter, Sort, Limit or Sample over a child plan
\* whose metadata M is resolved gets M back, field for field.
C3_RowPreservingInheritsChild ==
    (/\ Called
     /\ Call.enabled
     /\ Call.source_plan.cls \in {"Filter", "Sort", "Limit", "Sample"}
     /\ Call.source_plan.child.cls = "SnowflakePlan"
     /\ Call.source_plan.child._metadata #
            [attributes |-> None, quoted_identifiers |-> None])
    => /\ Call.result # AssertionError
       /\ Call.result.attributes = Call.source_plan.child._metadata.attributes
       /\ Call.result.quoted_identifiers =
              Call.source_plan.child._metadata.quoted_identifiers

\* reached: a Sample over a child with two known names got both names, in order
C3_Witness ==
    /\ Called
    /\ Call.enabled
    /\ Call.source_plan.cls = "Sample"
    /\ Call.source_plan.child.cls = "SnowflakePlan"
    /\ Call.source_plan.child._metadata.quoted_identifiers =
           Some(<< <<DQ, "A", DQ>>, <<DQ, "c", DQ>> >>)
    /\ Call.result = [attributes |-> None,
                      quoted_identifiers |-> Some(<< <<DQ, "A", DQ>>, <<DQ, "c", DQ>> >>)]

\* C4: a Project whose list holds a select-all wildcard at any position
\* yields Unknown, also when every other expression has a name.
C4_WildcardIsUnknown ==
    (/\ Called
     /\ Call.source_plan.cls = "Project"
     /\ \E i \in 1..Len(Call.source_plan.project_list) :
            IsStar(Call.source_plan.project_list[i]))
    => Call.result = [attributes |-> None, quoted_identifiers |-> None]

\* reached: flag on, the list [a, *], wildcard last, came back Unknown
C4_Witness ==
    /\ Called
    /\ Call.enabled
    /\ Call.source_plan.cls = "Project"
    /\ Call.source_plan.project_list = <<UnresolvedAttribute(<<"a">>), SelectStar>>
    /\ Call.result = [attributes |-> None, quoted_identifiers |-> None]

\* C5: for a wildcard-free list in which every expression has a name, the
\* inferred names are as many as the expressions and the i-th is the
\* quoted name of the i-th expression: order kept, duplicates kept.
C5_NamesInOrderWithDuplicates ==
    (/\ Called
     /\ Call.enabled
     /\ Call.source_plan.cls = "Project"
     /\ \A i \in 1..Len(Call.source_plan.project_list) :
            /\ ~IsStar(Call.source_plan.project_list[i])
            /\ Call.source_plan.project_list[i].name # None)
    => /\ Call.result # AssertionError
       /\ Call.result.attributes = None
       /\ Call.result.quoted_identifiers # None
       /\ Len(Call.result.quoted_identifiers[1]) = Len(Call.source_plan.project_list)
       /\ \A i \in 1..Len(Call.source_plan.project_list) :
            Call.result.quoted_identifiers[1][i] =
                quote_name(Call.source_plan.project_list[i].name[1])

\* reached: the list [a, a] came back as the two names "A", "A"
C5_Witness ==
    /\ Called
    /\ Call.enabled
    /\ Call.source_plan.cls = "Project"
    /\ Call.source_plan.project_list =
           <<UnresolvedAttribute(<<"a">>), UnresolvedAttribute(<<"a">>)>>
    /\ Call.result = [attributes |-> None,
                      quoted_identifiers |-> Some(<< <<DQ, "A", DQ>>, <<DQ, "A", DQ>> >>)]

\* C6: if one expression of the list, at any position, has no name, the
\* result is Unknown: never a list shorter than the input.
C6_AllOrNothing ==
    (Called /\ Call.source_plan.cls = "Project") =>
        /\ Call.result # AssertionError
        /\ (\E i \in 1..Len(Call.source_plan.project_list) :
                Call.source_plan.project_list[i].name = None)
           => Call.result = [attributes |-> None, quoted_identifiers |-> None]
        /\ Call.result.quoted_identifiers # None
           => Len(Call.result.quoted_identifiers[1]) = Len(Call.source_plan.project_list)

\* reached: flag on, the list [a, 1] with the unnamed literal last came back Unknown
C6_Witness ==
    /\ Called
    /\ Call.enabled
    /\ Call.source_plan.cls = "Project"
    /\ Call.source_plan.project_list = <<UnresolvedAttribute(<<"a">>), Literal>>
    /\ Call.result = [attributes |-> None, quoted_identifiers |-> None]

\* C7 as claimed: with the flag on, a SelectStatement with cached column
\* states and no cached attribute list yields the cached names as
\* NamesKnown, whatever the state of its source.
C7_CachedNamesWhateverTheSource ==
    (/\ Called
     /\ Call.enabled
     /\ Call.source_plan.cls = "SelectStatement"
     /\ Call.source_plan._attributes = None
     /\ Call.source_plan._column_states # None)
    => Call.result =
          [attributes |-> None,
           quoted_identifiers |->
              Some([i \in 1..Len(Call.source_plan._column_states[1].projection) |->
                        Call.source_plan._column_states[1].projection[i].name])]

\* the source of the call's SelectStatement is a plan whose attributes
\* are known, under a statement without projection
SourceOffersAttributes ==
    /\ Call.source_plan.from_.cls = "Selectable"
    /\ Call.source_plan.projection = None
    /\ Call.source_plan.from_._snowflake_plan # None
    /\ Call.source_plan.from_._snowflake_plan[1]._metadata.attributes # None

\* C7 amended: with the flag on, a SelectStatement with cached column
\* states and no cached attribute list yields the cached names, in their
\* cached order, as NamesKnown, unless it is a statement without
\* projection over a source plan whose attributes are known: then it
\* yields AttributesKnown with the source's attributes.
C7_CachedNamesUnlessSourceAttributes ==
    (/\ Called
     /\ Call.enabled
     /\ Call.source_plan.cls = "SelectStatement"
     /\ Call.source_plan._attributes = None
     /\ Call.source_plan._column_states # None)
    => IF SourceOffersAttributes
       THEN Call.result =
              [attributes |-> Call.source_plan.from_._snowflake_plan[1]._metadata.attributes,
               quoted_identifiers |-> None]
       ELSE Call.result =
              [attributes |-> None,
               quoted_identifiers |->
                  Some([i \in 1..Len(Call.source_plan._column_states[1].projection) |->
                            Call.source_plan._column_states[1].projection[i].name])]

\* reached: cached column states "c", "A", no cached attributes, a
\* projection over a source whose attributes are known: the two cached
\* names came back in their order
C7_Witness ==
    /\ Called
    /\ Call.enabled
    /\ Call.source_plan.cls = "SelectStatement"
    /\ Call.source_plan._attributes = None
    /\ Call.source_plan._column_states =
           Some(ColumnStates(<< <<DQ, "c", DQ>>, <<DQ, "A", DQ>> >>))
    /\ Call.source_plan.projection # None
    /\ Call.source_plan.from_._snowflake_plan # None
    /\ Call.source_plan.from_._snowflake_plan[1]._metadata.attributes # None
    /\ Call.result = [attributes |-> None,
                      quoted_identifiers |-> Some(<< <<DQ, "c", DQ>>, <<DQ, "A", DQ>> >>)]

\* C8: with the flag on, a SelectStatement without projection and without
\* caches of its own, over a source plan whose metadata is resolved,
\* returns the source's metadata: its attributes if it has them, else its
\* names.
C8_PassThroughCopiesSource ==
    (/\ Called
     /\ Call.enabled
     /\ Call.source_plan.cls = "SelectStatement"
     /\ Call.source_plan._attributes = None
     /\ Call.source_plan._column_states = None
     /\ Call.source_plan.from_.cls = "Selectable"
     /\ Call.source_plan.projection = None
     /\ Call.source_plan.from_._snowflake_plan # None
     /\ Call.source_plan.from_._snowflake_plan[1]._metadata #
            [attributes |-> None, quoted_identifiers |-> None])
    => /\ Call.result = Call.source_plan.from_._snowflake_plan[1]._metadata
       /\ IF Call.source_plan.from_._snowflake_plan[1]._metadata.attributes # None
          THEN Call.result.attributes # None /\ Call.result.quoted_identifiers = None
          ELSE Call.result.attributes = None /\ Call.result.quoted_identifiers # None

\* reached: such a statement over a source with two known attributes got them
C8_Witness ==
    /\ Called
    /\ Call.enabled
    /\ Call.source_plan.cls = "SelectStatement"
    /\ Call.source_plan._attributes = None
    /\ Call.source_plan._column_states = None
    /\ Call.source_plan.from_.cls = "Selectable"
    /\ Call.source_plan.projection = None
    /\ Call.source_plan.from_._snowflake_plan # None
    /\ Call.source_plan.from_._snowflake_plan[1]._metadata.attributes # None
    /\ Len(Call.source_plan.from_._snowflake_plan[1]._metadata.attributes[1]) = 2
    /\ Call.result = Call.source_plan.from_._snowflake_plan[1]._metadata

\* C9: every read of the plan's attributes returns the same list, every
\* read of its quoted identifiers returns the same list, and all the reads
\* together issue at most one describe round trip.
C9_ReadsAgreeOneDescribe ==
    /\ plan.describes <= 1
    /\ Cardinality(seen_attributes) <= 1
    /\ Cardinality(seen_quoted_identifiers) <= 1

\* reached: a Project whose names were inferred has had both its names
\* and its attributes read, the attributes by the one describe
C9_Witness ==
    /\ node.cls = "Project"
    /\ session.reduce_describe_query_enabled
    /\ BackendNamed(node.project_list)
    /\ plan.describes = 1
    /\ plan._metadata # AssertionError
    /\ plan._metadata.attributes # None
    /\ seen_attributes # {}
    /\ seen_quoted_identifiers # {}

\* the child of the node is a bare logical node, or a plan whose metadata
\* is not resolved
ChildUnresolved ==
    \/ node.child.cls # "SnowflakePlan"
    \/ node.child._metadata = [attributes |-> None, quoted_identifiers |-> None]

\* C10: a call for a Filter, Sort, Limit or Sample whose child's metadata
\* is not resolved returns Unknown and changes neither the node, its child
\* included, nor the plan: no describe, no write.
C10_UnresolvedChildUntouched ==
    [][(/\ CallInferMetadata
        /\ node.cls \in {"Filter", "Sort", "Limit", "Sample"}
        /\ ChildUnresolved)
       => /\ last_call'[1].result = [attributes |-> None, quoted_identifiers |-> None]
          /\ node' = node
          /\ plan' = plan]_vars

\* reached: flag on, a Filter over a plan with unresolved metadata came
\* back Unknown and the child is still unresolved, with no describe issued
C10_Witness ==
    /\ Called
    /\ Call.enabled
    /\ Call.source_plan.cls = "Filter"
    /\ Call.source_plan.child.cls = "SnowflakePlan"
    /\ Call.source_plan.child._metadata = [attributes |-> None, quoted_identifiers |-> None]
    /\ Call.result = [attributes |-> None, quoted_identifiers |-> None]
    /\ node = Call.source_plan
    /\ node.child.describes = 0

\* infer_metadata found nothing for the node the plan was built over
BuiltUnknown ==
    \/ ~built.enabled
    \/ /\ built.source_plan.cls = "Project"
       /\ \E i \in 1..Len(built.source_plan.project_list) :
              IsStar(built.source_plan.project_list[i])

\* the plan was built, flag on, over a Filter, Sort, Limit or Sample whose
\* child's attributes were known
BuiltOverResolvedChild ==
    /\ built.enabled
    /\ built.source_plan.cls \in {"Filter", "Sort", "Limit", "Sample"}
    /\ built.source_plan.child.cls = "SnowflakePlan"
    /\ built.source_plan.child._metadata.attributes # None

\* the plan was built, flag on, over a Project without wildcard in which
\* every expression has a name
BuiltOverNamedProject ==
    /\ built.enabled
    /\ built.source_plan.cls = "Project"
    /\ \A i \in 1..Len(built.source_plan.project_list) :
           /\ ~IsStar(built.source_plan.project_list[i])
           /\ built.source_plan.project_list[i].name # None

\* C11: a describe is issued only by a read of something inference left
\* unknown.  Built with the flag on over a row-preserving node with a
\* resolved child, no read of the plan issues a describe; built over a
\* named, wildcard-free Project, reads of its quoted identifiers issue
\* none; built with the flag off or over a Project with a wildcard, the
\* reads issue exactly one.
C11_DescribeOnlyWhenUnknown ==
    /\ BuiltOverResolvedChild => plan.describes = 0
    /\ (BuiltOverNamedProject /\ seen_attributes = {}) => plan.describes = 0
    /\ (BuiltUnknown /\ (seen_attributes # {} \/ seen_quoted_identifiers # {}))
       => plan.describes = 1
    /\ plan.describes > 0
       => /\ built.metadata # AssertionError
          /\ built.metadata.attributes = None
          /\ built.metadata.quoted_identifiers = None \/ seen_attributes # {}

\* reached: a plan built over the named Project [a, "c"] has had its
\* quoted identifiers read and no describe was issued
C11_Witness ==
    /\ built.enabled
    /\ built.source_plan.cls = "Project"
    /\ built.source_plan.project_list =
           <<UnresolvedAttribute(<<"a">>), Alias("Literal", <<DQ, "c", DQ>>)>>
    /\ seen_quoted_identifiers = {<< <<DQ, "A", DQ>>, <<DQ, "c", DQ>> >>}
    /\ seen_attributes = {}
    /\ plan.describes = 0

\* the call's node is one infer_metadata has no conclusive rule for
Inconclusive ==
    \/ ~Call.enabled
    \/ Call.source_plan.cls \in {"NoneType", "Aggregate"}
    \/ /\ Call.source_plan.cls \in {"Filter", "Sort", "Limit", "Sample"}
       /\ \/ Call.source_plan.child.cls # "SnowflakePlan"
          \/ Call.source_plan.child._metadata =
                 [attributes |-> None, quoted_identifiers |-> None]
    \/ /\ Call.source_plan.cls = "Project"
       /\ \E i \in 1..Len(Call.source_plan.project_list) :
              \/ IsStar(Call.source_plan.project_list[i])
              \/ Call.source_plan.project_list[i].name = None
    \/ /\ Call.source_plan.cls = "SelectStatement"
       /\ Call.source_plan._attributes = None
       /\ Call.source_plan._column_states = None
       /\ \/ Call.source_plan.from_.cls # "Selectable"
          \/ Call.source_plan.projection # None
          \/ Call.source_plan.from_._snowflake_plan = None
          \/ Call.source_plan.from_._snowflake_plan[1]._metadata =
                 [attributes |-> None, quoted_identifiers |-> None]

\* C12: constructing a PlanMetadata with both attributes and
\* quoted_identifiers raises, and any other construction keeps both
\* arguments as given; infer_metadata never raises, and in every
\* inconclusive case it returns the value Unknown.
C12_BothRaisesInconclusiveReturns ==
    /\ constructed # None =>
          IF constructed[1].attributes # None /\ constructed[1].quoted_identifiers # None
          THEN constructed[1].result = AssertionError
          ELSE constructed[1].result =
                   [attributes |-> constructed[1].attributes,
                    quoted_identifiers |-> constructed[1].quoted_identifiers]
    /\ Called => Call.result # AssertionError
    /\ (Called /\ Inconclusive)
       => Call.result = [attributes |-> None, quoted_identifiers |-> None]

\* reached: a construction with both arguments present raised, and a call
\* with the flag on for a node of another class returned Unknown
C12_Witness ==
    /\ constructed # None
    /\ constructed[1].attributes # None
    /\ constructed[1].quoted_identifiers # None
    /\ constructed[1].result = AssertionError
    /\ Called
    /\ Call.enabled
    /\ Call.source_plan.cls = "Aggregate"
    /\ Call.result = [attributes |-> None, quoted_identifiers |-> None]

\* C13: with the flag on, a SelectStatement with a cached attribute list
\* yields exactly that list as AttributesKnown, with no names, whatever
\* column states it has cached and whatever its source holds.
C13_CachedAttributesWin ==
    (/\ Called
     /\ Call.enabled
     /\ Call.source_plan.cls = "SelectStatement"
     /\ Call.source_plan._attributes # None)
    => Call.result = [attributes |-> Call.source_plan._attributes,
                      quoted_identifiers |-> None]

\* reached: cached attributes and cached column states on a statement
\* without projection over a source whose names are known: the cached
\* attributes came back alone
C13_Witness ==
    /\ Called
    /\ Call.enabled
    /\ Call.source_plan.cls = "SelectStatement"
    /\ Call.source_plan._attributes # None
    /\ Len(Call.source_plan._attributes[1]) = 2
    /\ Call.source_plan._column_states # None
    /\ Call.source_plan.from_.cls = "Selectable"
    /\ Call.source_plan.projection = None
    /\ Call.source_plan.from_._snowflake_plan # None
    /\ Call.source_plan.from_._snowflake_plan[1]._metadata.quoted_identifiers # None
    /\ Call.result = [attributes |-> Call.source_plan._attributes,
                      quoted_identifiers |-> None]

\* C14 as claimed: once the plan's metadata is resolved, no read and no
\* inference call changes it.
C14_ResolvedNeverChanges ==
    [][plan._metadata # [attributes |-> None, quoted_identifiers |-> None]
       => plan'._metadata = plan._metadata]_vars

\* C14 amended: the plan's metadata never returns to Unknown once it is
\* resolved, and known attributes never change; known names change only
\* once, into the attributes of the same column names, when the attributes
\* are first read and the one describe for them completes.
C14_ResolvedOnlyUpgrades ==
    [][/\ plan._metadata # [attributes |-> None, quoted_identifiers |-> None]
          => plan'._metadata # [attributes |-> None, quoted_identifiers |-> None]
       /\ plan._metadata.attributes # None => plan'._metadata = plan._metadata
       /\ (plan._metadata.quoted_identifiers # None /\ plan'._metadata # plan._metadata)
          => /\ plan'._metadata.attributes # None
             /\ plan'._metadata.quoted_identifiers = None
             /\ [i \in 1..Len(plan'._metadata.attributes[1]) |->
                    plan'._metadata.attributes[1][i].name]
                = plan._metadata.quoted_identifiers[1]
             /\ plan'.describes = plan.describes + 1]_vars

\* reached: a plan built with two inferred names now holds the attributes
\* of those names, after one describe
C14_Witness ==
    /\ built.metadata # AssertionError
    /\ built.metadata.quoted_identifiers # None
    /\ Len(built.metadata.quoted_identifiers[1]) = 2
    /\ plan._metadata.attributes # None
    /\ plan._metadata.quoted_identifiers = None
    /\ [i \in 1..Len(plan._metadata.attributes[1]) |-> plan._metadata.attributes[1][i].name]
       = built.metadata.quoted_identifiers[1]
    /\ plan.describes = 1

\* C15: with several callers resolving the plan at once, the metadata a
\* reader can observe never has attributes and names together; attributes
\* once in the cache are never replaced; and all the callers' reads of the
\* attributes return one list, all their reads of the names one list.
C15_FirstWriteWinsNoPartial ==
    /\ [](/\ plan._metadata # AssertionError
          /\ ~(plan._metadata.attributes # None /\ plan._metadata.quoted_identifiers # None)
          /\ Cardinality(seen_attributes) <= 1
          /\ Cardinality(seen_quoted_identifiers) <= 1
          /\ (plan._metadata.attributes # None /\ seen_attributes # {})
             => seen_attributes = {plan._metadata.attributes[1]})
    /\ [][plan._metadata.attributes # None => plan'._metadata = plan._metadata]_vars

\* reached: both callers had a describe in flight for a plan whose names
\* were known; the cache holds the attributes, both callers are back, and
\* attributes and names have been returned
C15_Witness ==
    /\ plan.describes = 2
    /\ \A c \in Callers : callers[c].pc = "idle"
    /\ built.metadata # AssertionError
    /\ built.metadata.quoted_identifiers # None
    /\ plan._metadata # AssertionError
    /\ plan._metadata.attributes # None
    /\ plan._metadata.quoted_identifiers = None
    /\ seen_attributes # {}
    /\ seen_quoted_identifiers # {}

====
